---- MODULE Spec2Model ----
(***************************************************************************)
(* Receiving-hospital dashboard: the referral status workflow              *)
(* (receiving_hospital_dashboard.py, display_clinical_overview), the       *)
(* SQLite event log (storage.py) and the per-case live-feed consumer       *)
(* (_ingest_events_for).                                                   *)
(***************************************************************************)
EXTENDS Integers, Sequences, FiniteSets, TLC

\* ------------------------------------------------------------------ bounds
\* Rows the events table may hold in the model.
MaxEvents == 3
\* Largest LIMIT drawn for a direct poll_events_since call.
MaxLimit == 2
\* LIMIT passed by _ingest_events_for: 500 in the source, scaled down so that
\* a batch is truncated within MaxEvents rows.
IngestLimit == 2
\* LIMIT of the system-wide poll: the default 200 of poll_events_since,
\* scaled down in the same way.
DefaultLimit == 2
\* Clock ticks during the publishers' calls.
MaxTicks == 1
\* Notifications the debug test alert may add on top of the others.
MaxNotifs == 2
\* EMT interventions recorded per case in the model.
MaxInterventions == 2
\* Audit entries a case may collect in the model.
MaxAudit == 1

\* ------------------------------------------------------- program constants
None == "None"

Statuses == {"PREALERT", "ACCEPTED", "ENROUTE", "ARRIVE_DEST", "HANDOVER", "REJECTED"}

REJECT_REASONS == {"No ICU bed", "No specialist", "Equipment down",
                   "Over capacity", "Outside scope", "Patient diverted"}

\* Reasons a reject request may carry: two of the enumerated ones, one that
\* is not enumerated, and a missing one.
ReasonInputs == {"No ICU bed", "Patient diverted", "Other", None}

\* The case dicts of the seeded referral list.
CaseObjs == {"S1", "S2"}

\* Timestamps _seed_one draws, in the order it builds them
\* (first_contact < decision < dispatch <= enroute < arrive_dest < handover).
SeedFirstContact == 1
SeedDecision == 2
SeedDispatch == 3
SeedEnroute == 4
SeedArrive == 5
SeedHandover == 6

\* 0 stands for a key that is absent from the times dict.
Unset == 0

\* The clock during the modelled script runs, after the seeded milestones.
StartTime == 7

\* times dict of a case seeded with the given status.
SeedTimes(status) ==
  [first_contact |-> SeedFirstContact,
   decision      |-> SeedDecision,
   dispatch      |-> IF status \in {"ACCEPTED", "ENROUTE", "ARRIVE_DEST", "HANDOVER"}
                     THEN SeedDispatch ELSE Unset,
   enroute       |-> IF status \in {"ENROUTE", "ARRIVE_DEST", "HANDOVER"}
                     THEN SeedEnroute ELSE Unset,
   arrive_dest   |-> IF status \in {"ARRIVE_DEST", "HANDOVER"}
                     THEN SeedArrive ELSE Unset,
   handover      |-> IF status = "HANDOVER" THEN SeedHandover ELSE Unset]

\* The dict _seed_one returns, reduced to the fields of the workflow.
\* reject_reason models the rejectReason field of the data model.
SeedOne(status) ==
  [status |-> status, times |-> SeedTimes(status), audit_log |-> <<>>,
   reject_reason |-> None]

VARIABLES
  now,            \* time.time() as the modelled script runs read it
  referrals,      \* the case dicts: case object -> fields
  referrals_all,  \* st.session_state.referrals_all: which list object it is
  saved_data,     \* st.session_state.saved_data["referrals"], None before auto_save
  last_click,     \* the action of the current script run and its outcome
  notify_rules,   \* st.session_state.notify_rules
  events,         \* the rows of table events, in insertion order
  autoinc,        \* sqlite_sequence: the largest id AUTOINCREMENT has handed out
  last_rowid,     \* last_insert_rowid() of the one cached connection
  pub,            \* each session's publish_event call: position and locals
  poll_call,      \* the last direct poll_events_since call: arguments and result
  poll_hist,      \* history: how the last direct call relates to the one before
  last_event_id,  \* st.session_state.last_event_id
  live_feed,      \* st.session_state.live_feed
  vitals_buffer,  \* st.session_state.vitals_buffer
  interventions_buffer,  \* st.session_state.interventions_buffer
  notifications,  \* st.session_state.notifications
  delivered,      \* history: ids _ingest_events_for appended to live_feed, per case
  system_last_event_id,  \* st.session_state.system_last_event_id
  evaluated,      \* history: ids each consumer's routing loop looked at, in order
  disk,           \* the two JSON files: content of each, and what was last saved
  op_result,      \* the last load, save or intervention call and how it ended
  emt_interventions,  \* st.session_state.emt_interventions
  run_raised      \* whether the last _ingest_events_for call ended in an exception

caseVars == <<referrals, referrals_all, saved_data, last_click, notify_rules>>

logVars == <<events, autoinc, last_rowid, pub, poll_call, poll_hist>>

feedVars == <<last_event_id, live_feed, vitals_buffer, interventions_buffer,
              notifications, delivered, run_raised, system_last_event_id, evaluated>>

persistVars == <<disk, op_result, emt_interventions>>

vars == <<now, caseVars, logVars, feedVars, persistVars>>

\* triage.decision.color of each seeded case; no handler changes it.
TriageColor == [c \in CaseObjs |-> IF c = "S1" THEN "RED" ELSE "YELLOW"]

\* The notification rules the sidebar offers.
RuleNames == {"RED_only", "eta_soon", "rejections"}

\* The icon push_notification puts in front of the title.
Icon(urgency) ==
  IF urgency = "high" THEN "red" ELSE IF urgency = "medium" THEN "yellow" ELSE "blue"

\* Mutant: the case id is not stored with the notification.
PushNotificationNoCase(title, body, case_id, urgency) ==
  <<[id |-> Len(notifications) + 1, ts |-> now, title |-> <<Icon(urgency), title>>,
     body |-> body, case_id |-> None, read |-> FALSE, urgency |-> urgency]>>
  \o notifications

\* push_notification(title, body, case_id, urgency): the list after the call,
\* the new record inserted at position 0. id stands for the fresh uuid.
push_notification(title, body, case_id, urgency) ==
  <<[id |-> Len(notifications) + 1, ts |-> now, title |-> <<Icon(urgency), title>>,
     body |-> body, case_id |-> case_id, read |-> FALSE, urgency |-> urgency]>>
  \o notifications

NoClick == [op |-> "none", case |-> None, reason |-> None, outcome |-> "ok"]

Click(op, c, reason, outcome) ==
  [op |-> op, case |-> c, reason |-> reason, outcome |-> outcome]

\* The sidebar checkboxes of lines 930-932: a script run stores each
\* checkbox's value in notify_rules; ticking a box changes one of them.
SetRule(rule) ==
  /\ notify_rules' = [notify_rules EXCEPT ![rule] = ~@]
  /\ last_click' = NoClick
  /\ UNCHANGED <<now, referrals, referrals_all, saved_data, logVars, feedVars, persistVars>>

\* auto_save() followed by st.rerun(): saved_data["referrals"] is bound to the
\* list referrals_all names, and the next run restores referrals_all from it.
AutoSaveRerun ==
  /\ saved_data' = referrals_all
  /\ referrals_all' = referrals_all

\* Mutant: the button rebuilds the times dict for the new status.
SetStatusRebuildTimes(c, op, status) ==
  /\ referrals' = [referrals EXCEPT ![c].status = status,
                                    ![c].times = SeedTimes(status)]
  /\ AutoSaveRerun
  /\ last_click' = Click(op, c, None, "ok")
  /\ UNCHANGED <<now, notify_rules, logVars, feedVars, persistVars>>

\* The four status buttons of display_clinical_overview: each assigns the
\* status unconditionally, saves and reruns.
SetStatus(c, op, status) ==
  /\ referrals' = [referrals EXCEPT ![c].status = status]
  /\ AutoSaveRerun
  /\ last_click' = Click(op, c, None, "ok")
  /\ UNCHANGED <<now, notify_rules, logVars, feedVars, persistVars>>

Accept(c) == SetStatus(c, "accept", "ACCEPTED")

EnRoute(c) == SetStatus(c, "enroute", "ENROUTE")

Arrived(c) == SetStatus(c, "arrived", "ARRIVE_DEST")

Handover(c) == SetStatus(c, "handover", "HANDOVER")

Terminal == {"HANDOVER", "REJECTED"}

\* Mutant: the status is written but neither the reason nor the audit entry.
RejectStatusOnly(c, reason) ==
  /\ Len(referrals[c].audit_log) < MaxAudit
  /\ IF reason \notin REJECT_REASONS
     THEN /\ last_click' = Click("reject", c, reason, "InvalidArgument")
          /\ UNCHANGED referrals
     ELSE IF referrals[c].status \in {"HANDOVER", "REJECTED"}
     THEN /\ last_click' = Click("reject", c, reason, "InvalidStateTransition")
          /\ UNCHANGED referrals
     ELSE /\ last_click' = Click("reject", c, reason, "ok")
          /\ referrals' = [referrals EXCEPT ![c].status = "REJECTED"]
  /\ UNCHANGED <<now, referrals_all, saved_data, notify_rules, logVars, feedVars, persistVars>>

\* Mutant: the reason is not validated.
RejectAnyReason(c, reason) ==
  /\ Len(referrals[c].audit_log) < MaxAudit
  /\ IF referrals[c].status \in {"HANDOVER", "REJECTED"}
     THEN /\ last_click' = Click("reject", c, reason, "InvalidStateTransition")
          /\ UNCHANGED <<referrals, notifications>>
     ELSE /\ last_click' = Click("reject", c, reason, "ok")
          /\ referrals' = [referrals EXCEPT
               ![c].status = "REJECTED",
               ![c].reject_reason = reason,
               ![c].audit_log = Append(@, [ts |-> now, action |-> "REJECTED",
                                           detail |-> reason])]
          /\ notifications' = IF notify_rules["rejections"]
                               THEN push_notification("REJECTED", reason, c, "medium")
                               ELSE notifications
  /\ UNCHANGED <<now, referrals_all, saved_data, notify_rules, logVars,
                 last_event_id, live_feed, vitals_buffer, interventions_buffer,
                 delivered, run_raised, system_last_event_id, evaluated, persistVars>>

\* reject(case, reason) as section 4.1 of the specification states it: the
\* reason is validated first, then the source status; on success the status,
\* the reason and one audit entry are written together, and the rejection
\* rule of section 4.3 raises its alert when it is switched on.
Reject(c, reason) ==
  /\ Len(referrals[c].audit_log) < MaxAudit
  /\ IF reason \notin REJECT_REASONS
     THEN /\ last_click' = Click("reject", c, reason, "InvalidArgument")
          /\ UNCHANGED <<referrals, notifications>>
     ELSE IF referrals[c].status \in Terminal
     THEN /\ last_click' = Click("reject", c, reason, "InvalidStateTransition")
          /\ UNCHANGED <<referrals, notifications>>
     ELSE /\ last_click' = Click("reject", c, reason, "ok")
          /\ referrals' = [referrals EXCEPT
               ![c].status = "REJECTED",
               ![c].reject_reason = reason,
               ![c].audit_log = Append(@, [ts |-> now, action |-> "REJECTED",
                                           detail |-> reason])]
          /\ notifications' = IF notify_rules["rejections"]
                               THEN push_notification("REJECTED", reason, c, "medium")
                               ELSE notifications
  /\ UNCHANGED <<now, referrals_all, saved_data, notify_rules, logVars,
                 last_event_id, live_feed, vitals_buffer, interventions_buffer,
                 delivered, run_raised, system_last_event_id, evaluated, persistVars>>

\* ------------------------------------------------------------- storage.py
\* The sessions (script threads) that call publish_event; they share the one
\* connection get_db caches.
Sessions == {1, 2}

\* A missing number in a payload (Python None where a number is expected).
NoNum == -1

EmptyDict == [none \in {} |-> 0]

\* Python None passed as the payload argument.
NoPayload == [py_none |-> TRUE]

\* json.dumps(payload or {}): the text stored in column payload.
Dumps(payload) == <<"json", IF payload = NoPayload THEN EmptyDict ELSE payload>>

\* json.loads(payload) if payload else {}, {} when the text does not parse.
Loads(text) ==
  IF Len(text) = 2 /\ text[1] = "json" THEN text[2] ELSE EmptyDict

IdlePub == [pc |-> "idle", row |-> EmptyDict, own |-> 0, rid |-> 0]

\* Rows inserted or about to be inserted.
RowsClaimed == Len(events) + Cardinality({p \in Sessions : pub[p].pc = "insert"})

\* publish_event, line 23-26: the arguments are evaluated, time.time() among
\* them, before conn.execute runs the INSERT.
PubBegin(p, etype, case_id, payload) ==
  /\ pub[p].pc \in {"idle", "done"}
  /\ RowsClaimed < MaxEvents
  /\ pub' = [pub EXCEPT ![p] =
       [pc |-> "insert",
        row |-> [ts |-> now, type |-> etype, case_id |-> case_id, actor |-> "emt",
                 payload |-> Dumps(payload)],
        own |-> 0, rid |-> 0]]
  /\ UNCHANGED <<now, caseVars, events, autoinc, last_rowid, poll_call, poll_hist, feedVars, persistVars>>

\* Mutant: the id is drawn from a counter kept per case.
NextRowIdPerCase(row) ==
  1 + Cardinality({i \in DOMAIN events : events[i].case_id = row.case_id})

\* INTEGER PRIMARY KEY AUTOINCREMENT: one more than the largest id ever used.
NextRowId(row) == autoinc + 1

\* Mutant: INSERT OR REPLACE keyed by case and type - a newer row of the same
\* case and type takes the place of the older one.
PubInsertReplace(p) ==
  /\ pub[p].pc = "insert"
  /\ LET id == NextRowId(pub[p].row)
         r == pub[p].row
     IN /\ events' = Append(SelectSeq(events,
                               LAMBDA e : ~(e.case_id = r.case_id /\ e.type = r.type)),
             [id |-> id, ts |-> r.ts, type |-> r.type, case_id |-> r.case_id,
              actor |-> r.actor, payload |-> r.payload])
        /\ autoinc' = IF id > autoinc THEN id ELSE autoinc
        /\ last_rowid' = id
        /\ pub' = [pub EXCEPT ![p].pc = "commit", ![p].own = id]
  /\ UNCHANGED <<now, caseVars, poll_call, poll_hist, feedVars, persistVars>>

\* conn.execute("INSERT ..."): the row gets its id and the connection
\* remembers it as its last insert rowid, in one atomic statement.
PubInsert(p) ==
  /\ pub[p].pc = "insert"
  /\ LET id == NextRowId(pub[p].row)
         r == pub[p].row
     IN /\ events' = Append(events,
             [id |-> id, ts |-> r.ts, type |-> r.type, case_id |-> r.case_id,
              actor |-> r.actor, payload |-> r.payload])
        /\ autoinc' = IF id > autoinc THEN id ELSE autoinc
        /\ last_rowid' = id
        /\ pub' = [pub EXCEPT ![p].pc = "commit", ![p].own = id]
  /\ UNCHANGED <<now, caseVars, poll_call, poll_hist, feedVars, persistVars>>

\* conn.commit()
PubCommit(p) ==
  /\ pub[p].pc = "commit"
  /\ pub' = [pub EXCEPT ![p].pc = "select"]
  /\ UNCHANGED <<now, caseVars, events, autoinc, last_rowid, poll_call, poll_hist, feedVars, persistVars>>

\* rid = SELECT last_insert_rowid(); return rid
PubSelect(p) ==
  /\ pub[p].pc = "select"
  /\ pub' = [pub EXCEPT ![p].pc = "done", ![p].rid = last_rowid]
  /\ UNCHANGED <<now, caseVars, events, autoinc, last_rowid, poll_call, poll_hist, feedVars, persistVars>>

\* `if case_id:` - None and the empty string both select the unfiltered query.
Truthy(case_id) == case_id \notin {None, ""}

\* Mutant: the lower bound of the cursor is inclusive.
WhereInclusive(row, last_id, case_id) ==
  /\ row.id >= last_id
  /\ case_id \notin {None, ""} => row.case_id = case_id

\* WHERE id > ? [AND case_id = ?]
Where(row, last_id, case_id) ==
  /\ row.id > last_id
  /\ Truthy(case_id) => row.case_id = case_id

\* ORDER BY id ASC over a set of rows.
RECURSIVE OrderById(_)
OrderById(rows) ==
  IF rows = {} THEN <<>>
  ELSE LET first == CHOOSE r \in rows : \A q \in rows : r.id <= q.id
       IN <<first>> \o OrderById(rows \ {first})

\* LIMIT ? for a non-negative limit.
Limit(rows, limit) ==
  IF Len(rows) <= limit THEN rows ELSE SubSeq(rows, 1, limit)

\* The dict poll_events_since builds from one row.
EventDict(row) ==
  [id |-> row.id, ts |-> row.ts, type |-> row.type, case_id |-> row.case_id,
   actor |-> row.actor, payload |-> Loads(row.payload)]

poll_events_since(last_id, case_id, limit) ==
  LET rows == Limit(OrderById({events[i] : i \in {j \in DOMAIN events :
                                     Where(events[j], last_id, case_id)}}), limit)
  IN [i \in 1..Len(rows) |-> EventDict(rows[i])]

NoPoll == [called |-> FALSE, last_id |-> 0, case_id |-> None, limit |-> 0, out |-> <<>>]

\* at: the largest id handed out when the last direct call ran; others: another
\* consumer has polled since; repeat: the last direct call had the arguments
\* of the one before it and no row was inserted between the two;
\* repeat_others: another consumer polled between those two.
NoHist == [at |-> 0, others |-> FALSE, repeat |-> FALSE, repeat_others |-> FALSE]

SameCall(last_id, case_id, limit) ==
  /\ poll_call.called
  /\ poll_call.last_id = last_id
  /\ poll_call.case_id = case_id
  /\ poll_call.limit = limit
  /\ poll_hist.at = autoinc

HistAfter(last_id, case_id, limit) ==
  [at |-> autoinc, others |-> FALSE,
   repeat |-> SameCall(last_id, case_id, limit),
   repeat_others |-> SameCall(last_id, case_id, limit) /\ poll_hist.others]

\* A direct call of poll_events_since; the table is only read.
Poll(last_id, case_id, limit) ==
  /\ poll_call' = [called |-> TRUE, last_id |-> last_id, case_id |-> case_id,
                   limit |-> limit, out |-> poll_events_since(last_id, case_id, limit)]
  /\ UNCHANGED <<now, caseVars, events, autoinc, last_rowid, pub, poll_hist, feedVars, persistVars>>

\* Mutant: the log keeps a cursor for the consumer and starts from the
\* larger of it and last_id.
ObservedPollServerCursor(last_id, case_id, limit) ==
  /\ LET seen == {poll_call.out[i].id : i \in DOMAIN poll_call.out} \cup {last_id}
         from == CHOOSE x \in seen : \A y \in seen : y <= x
     IN poll_call' = [called |-> TRUE, last_id |-> last_id, case_id |-> case_id,
                      limit |-> limit, out |-> poll_events_since(from, case_id, limit)]
  /\ poll_hist' = HistAfter(last_id, case_id, limit)
  /\ UNCHANGED <<now, caseVars, events, autoinc, last_rowid, pub, feedVars, persistVars>>

\* poll_events_since called by the observed consumer, which may call again
\* with the same arguments.
ObservedPoll(last_id, case_id, limit) ==
  /\ poll_call' = [called |-> TRUE, last_id |-> last_id, case_id |-> case_id,
                   limit |-> limit, out |-> poll_events_since(last_id, case_id, limit)]
  /\ poll_hist' = HistAfter(last_id, case_id, limit)
  /\ UNCHANGED <<now, caseVars, events, autoinc, last_rowid, pub, feedVars, persistVars>>

\* Mutant: a queue-style read - the rows returned are deleted.
OtherPollConsume(last_id, case_id, limit) ==
  /\ \E out \in {poll_events_since(last_id, case_id, limit)} :
       events' = SelectSeq(events,
                   LAMBDA e : \A i \in DOMAIN out : out[i].id # e.id)
  /\ poll_hist' = [poll_hist EXCEPT !.others = TRUE]
  /\ UNCHANGED <<now, caseVars, autoinc, last_rowid, pub, poll_call, feedVars, persistVars>>

\* poll_events_since called by another consumer (another session or the
\* live feed): the same SELECT, its result kept by that consumer.
OtherPoll(last_id, case_id, limit) ==
  /\ \E out \in {poll_events_since(last_id, case_id, limit)} :
       events' = events
  /\ poll_hist' = [poll_hist EXCEPT !.others = TRUE]
  /\ UNCHANGED <<now, caseVars, autoinc, last_rowid, pub, poll_call, feedVars, persistVars>>

\* --------------------------------------------------- _ingest_events_for
\* Parameters of push_notification(title, body, case_id, urgency).
PushNotificationParams == 4

\* Positional arguments _ingest_events_for passes to push_notification.
IngestPushArgs == 5

\* A call with more positional arguments than parameters raises TypeError
\* before the body runs.
PushCallRaises(nargs) == nargs > PushNotificationParams

\* dict.get(key, default)
Get(d, key, default) == IF key \in DOMAIN d THEN d[key] ELSE default

\* The deterioration test of line 1285.
VitalsAlert(pl) ==
  LET sbp == Get(pl, "sbp", NoNum)
      spo2 == Get(pl, "spo2", NoNum)
      avpu == Get(pl, "avpu", "A")
  IN \/ sbp # NoNum /\ sbp < 90
     \/ spo2 # NoNum /\ spo2 < 90
     \/ avpu \in {"V", "P", "U"}

\* Mutant: the watermark is set to the smallest returned id.
MinOfIds(S) == CHOOSE x \in S : \A y \in S : x <= y

MaxOf(S) == CHOOSE x \in S : \A y \in S : y <= x

\* The routing loop of lines 1274-1296 from event i on: appends to the two
\* buffers and stops at the first push_notification call that raises; seen is
\* the number of events the loop looked at.
RECURSIVE Route(_, _, _, _)
Route(evs, i, vb, ib) ==
  IF i > Len(evs) THEN [vb |-> vb, ib |-> ib, raised |-> FALSE, seen |-> Len(evs)]
  ELSE LET ev == evs[i]
           pl == ev.payload
       IN IF ev.type = "vitals.update"
          THEN LET vb2 == Append(vb, [ts |-> ev.ts,
                                      sbp |-> Get(pl, "sbp", NoNum),
                                      spo2 |-> Get(pl, "spo2", NoNum),
                                      avpu |-> Get(pl, "avpu", "A")])
               IN IF VitalsAlert(pl) /\ PushCallRaises(IngestPushArgs)
                  THEN [vb |-> vb2, ib |-> ib, raised |-> TRUE, seen |-> i]
                  ELSE Route(evs, i + 1, vb2, ib)
          ELSE IF ev.type = "intervention.added"
          THEN Route(evs, i + 1, vb,
                     Append(ib, [ts |-> ev.ts, name |-> Get(pl, "name", ""),
                                 status |-> Get(pl, "status", "completed"),
                                 by |-> ev.actor]))
          ELSE IF ev.type = "status.update" /\ PushCallRaises(IngestPushArgs)
          THEN [vb |-> vb, ib |-> ib, raised |-> TRUE, seen |-> i]
          ELSE Route(evs, i + 1, vb, ib)

\* _ingest_events_for(case_id): poll from the case's watermark, return when
\* nothing is new, else advance the watermark, extend live_feed and route.
Ingest(c) ==
  \E new_events \in {poll_events_since(last_event_id[c], c, IngestLimit)} :
     /\ IF new_events = <<>>
        THEN /\ run_raised' = FALSE
             /\ UNCHANGED <<last_event_id, live_feed, vitals_buffer,
                            interventions_buffer, delivered, evaluated>>
        ELSE \E routed \in {Route(new_events, 1, vitals_buffer[c],
                                  interventions_buffer[c])} :
                /\ last_event_id' = [last_event_id EXCEPT ![c] =
                     MaxOf({new_events[i].id : i \in 1..Len(new_events)})]
                /\ live_feed' = [live_feed EXCEPT ![c] = @ \o new_events]
                /\ delivered' = [delivered EXCEPT ![c] =
                     @ \o [i \in 1..Len(new_events) |-> new_events[i].id]]
                /\ vitals_buffer' = [vitals_buffer EXCEPT ![c] = routed.vb]
                /\ interventions_buffer' = [interventions_buffer EXCEPT ![c] = routed.ib]
                /\ run_raised' = routed.raised
                /\ evaluated' = [evaluated EXCEPT ![c] =
                     @ \o [i \in 1..routed.seen |-> new_events[i].id]]
     /\ UNCHANGED <<now, caseVars, logVars, notifications, system_last_event_id,
                    persistVars>>

\* Positional arguments handle_system_event passes to push_notification.
SystemPushArgs == 5

\* The loop of check_for_new_events over handle_system_event from event i
\* on: the number of events handled when the loop ends, which is at the first
\* system.alert, whose push_notification call raises.
RECURSIVE HandleSystemEvents(_, _)
HandleSystemEvents(evs, i) ==
  IF i > Len(evs) THEN Len(evs)
  ELSE IF evs[i].type = "system.alert" /\ PushCallRaises(SystemPushArgs) THEN i
  ELSE HandleSystemEvents(evs, i + 1)

\* check_for_new_events(): the system-wide poll from system_last_event_id;
\* the watermark is advanced before the events are handled, and an exception
\* of the loop is swallowed by `except Exception: pass`.
CheckForNewEvents ==
  \E new_events \in {poll_events_since(system_last_event_id, None, DefaultLimit)} :
     /\ IF new_events = <<>>
        THEN UNCHANGED <<system_last_event_id, evaluated>>
        ELSE /\ system_last_event_id' =
                  MaxOf({new_events[i].id : i \in 1..Len(new_events)})
             /\ evaluated' = [evaluated EXCEPT !["system"] =
                  @ \o [i \in 1..HandleSystemEvents(new_events, 1) |-> new_events[i].id]]
     /\ UNCHANGED <<now, caseVars, logVars, last_event_id, live_feed, vitals_buffer,
                    interventions_buffer, notifications, delivered, run_raised,
                    persistVars>>

\* time.time() moves on between two statements of the running sessions.
Tick ==
  /\ now < StartTime + MaxTicks
  /\ now' = now + 1
  /\ UNCHANGED <<caseVars, logVars, feedVars, persistVars>>

\* ---------------------------------------------------------- persistence
\* data.json of data_persistence.py and referrals_data.json of the dashboard.
Files == {"data.json", "referrals_data.json"}

\* What a file may hold: nothing (no file), bytes that are not JSON, or a
\* JSON text, given by the value it encodes.
Missing == [kind |-> "missing"]

Corrupt == [kind |-> "corrupt"]

JsonText(v) == [kind |-> "json", value |-> v]

\* A well-formed JSON text that is no dataset.
WrongSchema == JsonText([version |-> "0"])

TimeKeys == {"first_contact", "decision", "dispatch", "enroute", "arrive_dest", "handover"}

\* A case dict as json.dump writes it: the times object has a member for
\* each key the dict holds, None is written as null.
JsonCase(r) ==
  [status |-> r.status,
   times |-> {<<k, r.times[k]>> : k \in {t \in TimeKeys : r.times[t] # Unset}},
   audit_log |-> r.audit_log,
   reject_reason |-> IF r.reject_reason = None THEN "null" ELSE r.reject_reason]

\* The dict json.load builds from such an object.
CaseOfJson(j) ==
  [status |-> j.status,
   times |-> [k \in TimeKeys |->
                IF \E m \in j.times : m[1] = k
                THEN (CHOOSE m \in j.times : m[1] = k)[2] ELSE Unset],
   audit_log |-> j.audit_log,
   reject_reason |-> IF j.reject_reason = "null" THEN None ELSE j.reject_reason]

JsonCases(cases) == [c \in DOMAIN cases |-> JsonCase(cases[c])]

CasesOfJson(js) == [c \in DOMAIN js |-> CaseOfJson(js[c])]

\* The default load_data falls back to; the empty collections are written
\* as the empty dict.
DefaultDataset == [referrals |-> EmptyDict, interventions |-> EmptyDict,
                   resources |-> EmptyDict]

\* The dataset of the running session, as data_persistence.py passes it.
AppData == [referrals |-> referrals, interventions |-> EmptyDict,
            resources |-> EmptyDict]

NoSave == [saved |-> FALSE]

NoOp == [op |-> "none", outcome |-> "ok"]

\* Mutant: the file is opened for update and the referrals already in it
\* are kept.
WriteFileKeep(f, text, data) ==
  disk' = [disk EXCEPT !.content[f] = IF @.kind = "json" THEN @ ELSE text,
                       !.saved[f] = [saved |-> TRUE, data |-> data,
                                    over |-> disk.content[f].kind = "json"
                                              /\ disk.content[f] # text]]

\* open(f, "w") and json.dump: the file holds the new text and nothing else.
\* saved is history: the dataset handed to the last save of f and whether
\* that save found another JSON text in the file.
WriteFile(f, text, data) ==
  disk' = [disk EXCEPT !.content[f] = text,
                       !.saved[f] = [saved |-> TRUE, data |-> data,
                                    over |-> disk.content[f].kind = "json"
                                              /\ disk.content[f] # text]]

\* data_persistence.save_data(data)
SaveData ==
  /\ WriteFile("data.json",
               JsonText([AppData EXCEPT !.referrals = JsonCases(referrals)]), AppData)
  /\ op_result' = [op |-> "save_data", outcome |-> "ok"]
  /\ UNCHANGED <<now, caseVars, logVars, feedVars, emt_interventions>>

\* data_persistence.load_data(): whatever json.load returns, the default on
\* any exception.
LoadData ==
  /\ LET text == disk.content["data.json"]
     IN op_result' =
          [op |-> "load_data", outcome |-> "ok",
           value |-> IF text.kind # "json" THEN DefaultDataset
                     ELSE IF text = WrongSchema THEN text.value
                     ELSE [text.value EXCEPT !.referrals = CasesOfJson(@)]]
  /\ UNCHANGED <<now, caseVars, logVars, feedVars, disk, emt_interventions>>

\* save_data() of the dashboard: referrals_all is dumped.
SaveReferrals ==
  /\ WriteFile("referrals_data.json", JsonText(JsonCases(referrals)), referrals)
  /\ op_result' = [op |-> "save_referrals", outcome |-> "ok"]
  /\ UNCHANGED <<now, caseVars, logVars, feedVars, emt_interventions>>

\* The referrals seed_referrals_range creates when there is no file.
SeededReferrals == [c \in CaseObjs |-> SeedOne("PREALERT")]

\* load_persistent_data(): the first run of a session, whose saved_data and
\* notifications are new. Only FileNotFoundError is caught; value is what
\* referrals_all is bound to.
LoadPersistentData ==
  /\ LET text == disk.content["referrals_data.json"]
     IN /\ op_result' =
             IF text = Corrupt THEN [op |-> "load_persistent_data", outcome |-> "raised"]
             ELSE [op |-> "load_persistent_data", outcome |-> "ok",
                   value |-> IF text = Missing THEN SeededReferrals
                             ELSE IF text = WrongSchema THEN text.value
                             ELSE CasesOfJson(text.value)]
        /\ referrals' = IF text = Missing THEN SeededReferrals
                        ELSE IF text.kind = "json" /\ text # WrongSchema
                        THEN CasesOfJson(text.value) ELSE referrals
  /\ saved_data' = None
  /\ last_click' = NoClick
  /\ notifications' = <<>>
  /\ UNCHANGED <<now, referrals_all, notify_rules, logVars, last_event_id, live_feed,
                 vitals_buffer, interventions_buffer, delivered, run_raised,
                 system_last_event_id, evaluated, disk, emt_interventions>>

\* ------------------------------------------------- interventions, session
\* add_emt_intervention(case_id, intervention, details): the record is
\* appended, then publish_event is tried; `except: pass` hides a failure of
\* the store and the record is returned either way.
AddEmtIntervention(c, name, fails) ==
  /\ Len(emt_interventions[c]) < MaxInterventions
  /\ fails \/ Len(events) < MaxEvents
  /\ emt_interventions' = [emt_interventions EXCEPT ![c] = Append(@,
       [intervention |-> name, details |-> "", timestamp |-> now,
        type |-> "emt", status |-> "Completed"])]
  /\ IF fails
     THEN UNCHANGED <<events, autoinc, last_rowid>>
     ELSE \E id \in {NextRowId([case_id |-> c])} :
            /\ events' = Append(events,
                 [id |-> id, ts |-> now, type |-> "intervention.added", case_id |-> c,
                  actor |-> "emt",
                  payload |-> Dumps([name |-> name, details |-> "", status |-> "Completed"])])
            /\ autoinc' = id
            /\ last_rowid' = id
  /\ op_result' = [op |-> "add_emt_intervention", case |-> c, outcome |-> "ok",
                   store_failed |-> fails]
  /\ UNCHANGED <<now, caseVars, pub, poll_call, poll_hist, feedVars, disk>>

\* Mutant: marking read also drops the notifications that were read before.
MarkAllReadDropOld ==
  /\ notifications' = [i \in 1..Len(SelectSeq(notifications, LAMBDA n : ~n.read)) |->
                         [SelectSeq(notifications, LAMBDA n : ~n.read)[i]
                            EXCEPT !.read = TRUE]]
  /\ AutoSaveRerun
  /\ last_click' = Click("mark_all_read", None, None, "ok")
  /\ UNCHANGED <<now, referrals, notify_rules, logVars, last_event_id, live_feed,
                 vitals_buffer, interventions_buffer, delivered, run_raised,
                 system_last_event_id, evaluated, persistVars>>

\* "Mark all read": every notification's read flag is set; auto_save, rerun.
MarkAllRead ==
  /\ notifications' = [i \in DOMAIN notifications |->
                         [notifications[i] EXCEPT !.read = TRUE]]
  /\ AutoSaveRerun
  /\ last_click' = Click("mark_all_read", None, None, "ok")
  /\ UNCHANGED <<now, referrals, notify_rules, logVars, last_event_id, live_feed,
                 vitals_buffer, interventions_buffer, delivered, run_raised,
                 system_last_event_id, evaluated, persistVars>>

\* "Clear all": the list is replaced by an empty one; auto_save, rerun.
ClearAll ==
  /\ notifications' = <<>>
  /\ AutoSaveRerun
  /\ last_click' = Click("clear_all", None, None, "ok")
  /\ UNCHANGED <<now, referrals, notify_rules, logVars, last_event_id, live_feed,
                 vitals_buffer, interventions_buffer, delivered, run_raised,
                 system_last_event_id, evaluated, persistVars>>

\* "Generate Test Alert" of the debug tools.
TestAlert ==
  /\ Len(notifications) < MaxNotifs
  /\ notifications' = push_notification("Test Notification",
                         "This is a test notification", "TEST-001", "low")
  /\ last_click' = Click("test_alert", None, None, "ok")
  /\ UNCHANGED <<now, referrals, referrals_all, saved_data, notify_rules, logVars,
                 last_event_id, live_feed, vitals_buffer, interventions_buffer,
                 delivered, run_raised, system_last_event_id, evaluated, persistVars>>

\* Mutant: clearing the feed also resets the case's watermark.
ClearFeedResetWatermark(c) ==
  /\ live_feed' = [live_feed EXCEPT ![c] = <<>>]
  /\ vitals_buffer' = [vitals_buffer EXCEPT ![c] = <<>>]
  /\ interventions_buffer' = [interventions_buffer EXCEPT ![c] = <<>>]
  /\ last_event_id' = [last_event_id EXCEPT ![c] = 0]
  /\ UNCHANGED <<now, caseVars, logVars, notifications, delivered,
                 run_raised, system_last_event_id, evaluated, persistVars>>

\* "Clear feed": the three buffers of the open case are emptied.
ClearFeed(c) ==
  /\ live_feed' = [live_feed EXCEPT ![c] = <<>>]
  /\ vitals_buffer' = [vitals_buffer EXCEPT ![c] = <<>>]
  /\ interventions_buffer' = [interventions_buffer EXCEPT ![c] = <<>>]
  /\ UNCHANGED <<now, caseVars, logVars, last_event_id, notifications, delivered,
                 run_raised, system_last_event_id, evaluated, persistVars>>

\* The restore at the start of a script run (lines 374-379): when saved_data
\* exists, referrals_all is bound to the list saved_data holds.
Restored(collection) == IF saved_data # None THEN saved_data ELSE collection

\* "Load Demo Scenario": referrals_all is bound to the new list of the three
\* demo cases, then st.rerun() starts the next run, which restores.
LoadDemo ==
  /\ referrals_all' = Restored("demo")
  /\ last_click' = Click("load_demo", None, None, "ok")
  /\ UNCHANGED <<now, referrals, saved_data, notify_rules, logVars, feedVars, persistVars>>

\* "Reset Data" of the debug tools: referrals_all is bound to a newly seeded
\* list; the run goes on without a rerun.
ResetData ==
  /\ referrals_all' = "reseeded"
  /\ last_click' = Click("reset_data", None, None, "ok")
  /\ UNCHANGED <<now, referrals, saved_data, notify_rules, logVars, feedVars, persistVars>>

\* A script run in which no button is pressed (auto-refresh, any widget).
Rerun ==
  /\ referrals_all' = Restored(referrals_all)
  /\ last_click' = Click("rerun", None, None, "ok")
  /\ UNCHANGED <<now, referrals, saved_data, notify_rules, logVars, feedVars, persistVars>>

\* A status button pressed on a case of the collection on display when that
\* is not the seeded one: auto_save and rerun as for the seeded cases.
OtherCaseButton ==
  /\ referrals_all # "seeded"
  /\ AutoSaveRerun
  /\ last_click' = Click("accept", referrals_all, None, "ok")
  /\ UNCHANGED <<now, referrals, notify_rules, logVars, feedVars, persistVars>>

\* transport.eta_min of each seeded case (line 766) and the eta_alert
\* threshold of CONFIG.
EtaMin == [c \in CaseObjs |-> IF c = "S1" THEN 10 ELSE 40]

EtaAlert == 15

\* ------------------------------------------------------- specifications
LogStart ==
  /\ events = <<>>
  /\ autoinc = 0
  /\ last_rowid = 0
  /\ pub = [p \in Sessions |-> IdlePub]
  /\ poll_call = NoPoll
  /\ poll_hist = NoHist

FeedStart ==
  /\ last_event_id = [c \in CaseObjs |-> 0]
  /\ live_feed = [c \in CaseObjs |-> <<>>]
  /\ vitals_buffer = [c \in CaseObjs |-> <<>>]
  /\ interventions_buffer = [c \in CaseObjs |-> <<>>]
  /\ notifications = <<>>
  /\ delivered = [c \in CaseObjs |-> <<>>]
  /\ run_raised = FALSE
  /\ system_last_event_id = 0
  /\ evaluated = [k \in CaseObjs \cup {"system"} |-> <<>>]

PersistStart ==
  /\ disk = [content |-> [f \in Files |-> Missing], saved |-> [f \in Files |-> NoSave]]
  /\ op_result = NoOp
  /\ emt_interventions = [c \in CaseObjs |-> <<>>]

\* The session after the first script run: the seeded referrals, an empty
\* event table.
Init ==
  /\ now = StartTime
  /\ referrals \in [CaseObjs -> {SeedOne(s) : s \in Statuses}]
  /\ referrals_all = "seeded"
  /\ saved_data = None
  /\ last_click = NoClick
  /\ notify_rules = [r \in RuleNames |-> TRUE]
  /\ LogStart
  /\ FeedStart
  /\ PersistStart

Next ==
  \/ \E c \in CaseObjs : Accept(c)
  \/ \E c \in CaseObjs : EnRoute(c)
  \/ \E c \in CaseObjs : Arrived(c)
  \/ \E c \in CaseObjs : Handover(c)
  \/ \E c \in CaseObjs, reason \in ReasonInputs : Reject(c, reason)

Spec == Init /\ [][Next]_vars

\* The two transitions the status rules of section 4.3 watch, taken from
\* every seeded status, and the sidebar checkboxes of those two rules.
NextAlerts ==
  \/ \E c \in CaseObjs : Accept(c)
  \/ \E c \in CaseObjs, reason \in ReasonInputs : Reject(c, reason)
  \/ \E rule \in {"RED_only", "rejections"} : SetRule(rule)

SpecAlerts == Init /\ [][NextAlerts]_vars

\* The event log and its consumers, the referrals left as seeded.
InitLog ==
  /\ now = StartTime
  /\ referrals = [c \in CaseObjs |-> SeedOne("PREALERT")]
  /\ referrals_all = "seeded"
  /\ saved_data = None
  /\ last_click = NoClick
  /\ notify_rules = [r \in RuleNames |-> TRUE]
  /\ LogStart
  /\ FeedStart
  /\ PersistStart

\* What the publishers of the log specifications send: one payload that is
\* a dict and one that is None.
LogInputs ==
  { <<"vitals.update", [sbp |-> 80, spo2 |-> 95, avpu |-> "A"]>>,
    <<"system.alert", NoPayload>> }

\* What the EMT side sends to the live feed: an event whose routing calls
\* push_notification and one whose routing does not.
FeedInputs ==
  { <<"vitals.update", [sbp |-> 80, spo2 |-> 95, avpu |-> "A"]>>,
    <<"intervention.added", [name |-> "O2 started", status |-> "Completed"]>> }

Publish(ps, inputs) ==
  \/ \E p \in ps, in \in inputs, c \in CaseObjs : PubBegin(p, in[1], c, in[2])
  \/ \E p \in ps : PubInsert(p)
  \/ \E p \in ps : PubCommit(p)
  \/ \E p \in ps : PubSelect(p)

\* Two sessions publishing through the shared connection.
NextLog == Publish(Sessions, LogInputs)

SpecLog == InitLog /\ [][NextLog]_vars

PollCaseArgs == CaseObjs \cup {None, ""}

\* One publisher and direct calls of poll_events_since.
NextPoll ==
  \/ Publish({1}, LogInputs)
  \/ \E last_id \in 0..MaxEvents, c \in PollCaseArgs, limit \in 0..MaxLimit :
       Poll(last_id, c, limit)

SpecPoll == InitLog /\ [][NextPoll]_vars

\* One publisher and the live-feed consumer of each case.
NextFeed ==
  \/ Publish({1}, FeedInputs)
  \/ \E c \in CaseObjs : Ingest(c)

SpecFeed == InitLog /\ [][NextFeed]_vars

\* The open feed is re-polled on every rerun (auto-refresh).
SpecFeedFair == SpecFeed /\ \A c \in CaseObjs : WF_vars(Ingest(c))

\* A single kind of event, for the specifications about ids and cursors.
ClockInputs == { <<"vitals.update", [sbp |-> 80, spo2 |-> 95, avpu |-> "A"]>> }

\* Cursors, case filters and limits the consumers of SpecPollers call with.
PollerArgs == {0, 1} \X {None, "S1"} \X {1, MaxLimit}

\* One publisher, the observed consumer and other consumers of the log.
NextPollers ==
  \/ Publish({1}, ClockInputs)
  \/ \E a \in PollerArgs : ObservedPoll(a[1], a[2], a[3])
  \/ \E a \in PollerArgs : OtherPoll(a[1], a[2], a[3])

SpecPollers == InitLog /\ [][NextPollers]_vars

\* What reaches the two rule-evaluating consumers: an event the per-case
\* routing alerts on and one the system-wide handler alerts on.
RuleInputs ==
  { <<"vitals.update", [sbp |-> 80, spo2 |-> 95, avpu |-> "A"]>>,
    <<"system.alert", NoPayload>> }

\* One publisher, the live-feed consumer of each case and the system-wide
\* listener of the same session.
NextRules ==
  \/ Publish({1}, RuleInputs)
  \/ \E c \in CaseObjs : Ingest(c)
  \/ CheckForNewEvents

SpecRules == InitLog /\ [][NextRules]_vars

\* Two sessions publishing while the clock runs.
NextClock ==
  \/ Publish(Sessions, ClockInputs)
  \/ Tick

SpecClock == InitLog /\ [][NextClock]_vars

\* The files as a starting session may find them.
InitDisk ==
  /\ now = StartTime
  /\ referrals = SeededReferrals
  /\ referrals_all = "seeded"
  /\ saved_data = None
  /\ last_click = NoClick
  /\ notify_rules = [r \in RuleNames |-> TRUE]
  /\ LogStart
  /\ FeedStart
  /\ disk \in [content : [Files -> {Missing, Corrupt, WrongSchema}],
                saved : {[f \in Files |-> NoSave]}]
  /\ op_result = NoOp
  /\ emt_interventions = [c \in CaseObjs |-> <<>>]

\* Saving and loading through both modules while one case moves on.
NextDisk ==
  \/ Accept("S1")
  \/ \E reason \in ReasonInputs : Reject("S1", reason)
  \/ SaveData
  \/ LoadData
  \/ SaveReferrals
  \/ LoadPersistentData

SpecDisk == InitDisk /\ [][NextDisk]_vars

\* The status buttons pressed on cases of every seeded status, and reruns
\* in which no button is pressed.
NextTimes ==
  \/ \E c \in CaseObjs : Accept(c)
  \/ \E c \in CaseObjs : EnRoute(c)
  \/ \E c \in CaseObjs : Arrived(c)
  \/ \E c \in CaseObjs : Handover(c)
  \/ Rerun

SpecTimes == Init /\ [][NextTimes]_vars

\* EMT interventions against a store that may fail, and the live feed.
NextStore ==
  \/ \E c \in CaseObjs, name \in {"O2 started", "IV access"}, fails \in BOOLEAN :
       AddEmtIntervention(c, name, fails)
  \/ \E c \in CaseObjs : Ingest(c)

SpecStore == InitLog /\ [][NextStore]_vars

\* The live feed with its Clear feed button.
NextFeedClear ==
  \/ NextFeed
  \/ \E c \in CaseObjs : ClearFeed(c)

SpecFeedClear == InitLog /\ [][NextFeedClear]_vars

\* One session: status buttons, the notification centre, the demo and debug
\* tools.
NextSession ==
  \/ \E c \in CaseObjs : referrals_all = "seeded" /\ Accept(c)
  \/ OtherCaseButton
  \/ MarkAllRead
  \/ ClearAll
  \/ TestAlert
  \/ LoadDemo
  \/ ResetData
  \/ Rerun

SpecSession == InitLog /\ [][NextSession]_vars

\* ---------------------------------------------------- workflow: the claims
\* The lifecycle edges of section 4.1.
LegalEdges ==
  {<<"PREALERT", "ACCEPTED">>, <<"PREALERT", "ENROUTE">>, <<"ACCEPTED", "ENROUTE">>,
   <<"ENROUTE", "ARRIVE_DEST">>, <<"ARRIVE_DEST", "HANDOVER">>}
  \cup {<<s, "REJECTED">> : s \in Statuses \ Terminal}

\* The source statuses section 4.1 allows for each operation.
LegalFrom(op) ==
  CASE op = "accept"   -> {"PREALERT", "ACCEPTED"}
    [] op = "enroute"  -> {"PREALERT", "ACCEPTED", "ENROUTE"}
    [] op = "arrived"  -> {"ENROUTE", "ARRIVE_DEST"}
    [] op = "handover" -> {"ARRIVE_DEST"}
    [] op = "reject"   -> Statuses \ Terminal
    [] OTHER           -> Statuses

TransitionOps == {"accept", "enroute", "arrived", "handover", "reject"}

\* C1: every change of a case's status follows a legal edge of the lifecycle
\* (never backward, never skipping ARRIVE_DEST).
C1_StatusFollowsLegalEdges ==
  [][\A c \in CaseObjs :
       referrals'[c].status # referrals[c].status
         => <<referrals[c].status, referrals'[c].status>> \in LegalEdges]_vars

\* C2: once a case is HANDOVER or REJECTED no transition operation changes
\* its status or any other field, and every such attempt is rejected.
C2_TerminalIsImmutable ==
  [][\A c \in CaseObjs :
       referrals[c].status \in Terminal
         => /\ referrals'[c] = referrals[c]
            /\ (last_click'.op \in TransitionOps /\ last_click'.case = c)
                 => last_click'.outcome # "ok"]_vars

\* C3: a transition attempted from a status that does not permit it fails
\* with InvalidStateTransition and leaves the case unchanged; markHandover is
\* legal only from ARRIVE_DEST, markArrived only from ENROUTE or ARRIVE_DEST.
C3_IllegalTransitionFails ==
  [][\A c \in CaseObjs :
       ( /\ last_click'.op \in {"accept", "enroute", "arrived", "handover"}
         /\ last_click'.case = c
         /\ referrals[c].status \notin LegalFrom(last_click'.op) )
         => /\ last_click'.outcome = "InvalidStateTransition"
            /\ referrals'[c] = referrals[c]]_vars

\* C8: reject with an enumerated reason on a non-terminal case sets status to
\* REJECTED, records the reason on the case and appends, as the last audit
\* entry, REJECTED carrying that reason.
C8_RejectRecordsReason ==
  [][\A c \in CaseObjs :
       ( /\ last_click'.op = "reject"
         /\ last_click'.case = c
         /\ last_click'.reason \in REJECT_REASONS
         /\ referrals[c].status \notin Terminal )
         => /\ referrals'[c].status = "REJECTED"
            /\ referrals'[c].reject_reason = last_click'.reason
            /\ Len(referrals'[c].audit_log) = Len(referrals[c].audit_log) + 1
            /\ SubSeq(referrals'[c].audit_log, 1, Len(referrals[c].audit_log))
                 = referrals[c].audit_log
            /\ referrals'[c].audit_log[Len(referrals'[c].audit_log)].action = "REJECTED"
            /\ referrals'[c].audit_log[Len(referrals'[c].audit_log)].detail
                 = last_click'.reason]_vars

\* A case seeded as ARRIVE_DEST (arrive_dest set, handover unset) has just
\* been rejected with an enumerated reason.
C8_Witness ==
  \E c \in CaseObjs :
    /\ last_click = Click("reject", c, "No ICU bed", "ok")
    /\ referrals[c].status = "REJECTED"
    /\ referrals[c].times.arrive_dest # Unset
    /\ referrals[c].times.handover = Unset
    /\ Len(referrals[c].audit_log) = 1

C10_EnRouteSetsTimes ==
  [][\A c \in CaseObjs :
       ( /\ last_click'.op = "enroute"
         /\ last_click'.case = c
         /\ referrals[c].status \in {"PREALERT", "ACCEPTED", "ENROUTE"} )
         => /\ referrals'[c].status = "ENROUTE"
            /\ referrals'[c].times.dispatch
                 = (IF referrals[c].times.dispatch = Unset
                    THEN now ELSE referrals[c].times.dispatch)
            /\ referrals'[c].times.enroute = now]_vars

\* --------------------------------------------------- event log: the claims
\* C4: sequenceId values are strictly increasing in publication order across
\* the whole log, whatever the case, and no id is used twice, also when
\* publishers interleave.
C4_SequenceIdsIncrease ==
  /\ \A i, j \in DOMAIN events : i < j => events[i].id < events[j].id
  /\ \A i \in DOMAIN events : events[i].id >= 1 /\ events[i].id <= autoinc

\* Two sessions are both between INSERT and return, their rows being of
\* different cases.
C4_Witness ==
  /\ pub[1].pc = "commit"
  /\ pub[2].pc = "select"
  /\ Len(events) >= 2
  /\ \E i, j \in DOMAIN events : events[i].case_id # events[j].case_id

\* The events with sequenceId > lastSeenId, of the case when one is given.
Matching(last_id, case_id) ==
  {EventDict(events[k]) : k \in {n \in DOMAIN events :
      /\ events[n].id > last_id
      /\ case_id # None => events[n].case_id = case_id}}

Min(a, b) == IF a <= b THEN a ELSE b

PollContract ==
  LET out == poll_call.out
      want == Matching(poll_call.last_id, poll_call.case_id)
  IN /\ \A i \in DOMAIN out : out[i] \in want
     /\ \A i, j \in DOMAIN out : i < j => out[i].id < out[j].id
     /\ Len(out) = Min(poll_call.limit, Cardinality(want))
     /\ \A e \in want :
          (\A i \in DOMAIN out : out[i] # e) => \A i \in DOMAIN out : out[i].id < e.id

\* C5: pollSince returns exactly the events with sequenceId > lastSeenId,
\* restricted to caseId when one is given, ascending, truncated to the first
\* `limit` of them; the empty sequence when nothing matches.
C5_PollReturnsExactlyNewer ==
  [][poll_call' # poll_call => PollContract']_vars

\* Ids appended to the live feed of case c so far.
DeliveredIds(c) == {delivered[c][i] : i \in DOMAIN delivered[c]}

DeliveredOnceInOrder ==
  \A c \in CaseObjs :
    /\ \A i, j \in DOMAIN delivered[c] : i < j => delivered[c][i] < delivered[c][j]
    /\ \A i \in DOMAIN delivered[c] :
         \E k \in DOMAIN events :
           events[k].id = delivered[c][i] /\ events[k].case_id = c
    /\ \A k \in DOMAIN events :
         (events[k].case_id = c /\ events[k].id <= last_event_id[c])
           => events[k].id \in DeliveredIds(c)

\* An event of case c is published and not yet delivered to its consumer.
Pending(c) ==
  \E k \in DOMAIN events :
    events[k].case_id = c /\ events[k].id \notin DeliveredIds(c)

C7_PublishReturnsOwnId ==
  \A p \in Sessions : pub[p].pc = "done" => pub[p].rid = pub[p].own

\* ------------------------------------------- times and audit log: the claims
\* C11: in every reachable state the milestones agree with the status:
\* dispatch is set iff the status is ENROUTE, ARRIVE_DEST or HANDOVER,
\* arrive_dest iff it is ARRIVE_DEST or HANDOVER, handover iff it is HANDOVER.
C11_TimesMatchStatus ==
  \A c \in CaseObjs :
    LET r == referrals[c]
    IN /\ r.times.dispatch # Unset <=> r.status \in {"ENROUTE", "ARRIVE_DEST", "HANDOVER"}
       /\ r.times.arrive_dest # Unset <=> r.status \in {"ARRIVE_DEST", "HANDOVER"}
       /\ r.times.handover # Unset <=> r.status = "HANDOVER"

\* s is t with one entry added at the end.
OneAppended(s, t) == Len(s) = Len(t) + 1 /\ SubSeq(s, 1, Len(t)) = t

\* C12: the audit log is append-only with one entry per transition: every
\* successful accept, markEnRoute, markArrived, markHandover or reject appends,
\* in the step that sets the status, exactly one entry naming the new status,
\* and no other step touches the log.
C12_AuditEntryPerTransition ==
  [][\A c \in CaseObjs :
       IF \/ referrals'[c].status # referrals[c].status
          \/ /\ last_click'.op \in TransitionOps
             /\ last_click'.case = c
             /\ last_click'.outcome = "ok"
       THEN /\ OneAppended(referrals'[c].audit_log, referrals[c].audit_log)
            /\ referrals'[c].audit_log[Len(referrals'[c].audit_log)].action
                 = referrals'[c].status
       ELSE referrals'[c].audit_log = referrals[c].audit_log]_vars

\* ------------------------------------------- notification rules: the claims
\* The deterioration condition of section 4.3.
Deteriorated(pl) ==
  \/ Get(pl, "sbp", NoNum) # NoNum /\ Get(pl, "sbp", NoNum) < 90
  \/ Get(pl, "spo2", NoNum) # NoNum /\ Get(pl, "spo2", NoNum) < 90
  \/ Get(pl, "avpu", "A") # "A"

\* C13: ingesting newly observed events adds one notification, of urgency
\* high and naming the case, for each vitals.update among them with systolic
\* BP < 90, SpO2 < 90 or AVPU other than A, and none for any other.
C13_VitalsAlertRaised ==
  [][\A c \in CaseObjs :
       delivered'[c] # delivered[c]
         => LET new == SubSeq(live_feed'[c], Len(live_feed[c]) + 1, Len(live_feed'[c]))
                n == Cardinality({i \in DOMAIN new :
                       new[i].type = "vitals.update" /\ Deteriorated(new[i].payload)})
            IN /\ Len(notifications') = Len(notifications) + n
               /\ SubSeq(notifications', n + 1, Len(notifications')) = notifications
               /\ \A i \in 1..n : /\ notifications'[i].urgency = "high"
                                   /\ notifications'[i].case_id = c]_vars

\* C14: no consumer evaluates its rules twice on one event id, over any
\* sequence of per-case ingests, system-wide polls and publishes.
C14_EvaluatedOnce ==
  \A k \in DOMAIN evaluated :
    \A i, j \in DOMAIN evaluated[k] : i # j => evaluated[k][i] # evaluated[k][j]

\* The system-wide listener has handled two events in two polls, the first
\* poll having ended in the swallowed exception, and a per-case consumer has
\* routed one of the two as well.
C14_Witness ==
  /\ Len(evaluated["system"]) = 2
  /\ system_last_event_id > evaluated["system"][1]
  /\ \E k \in DOMAIN events :
       events[k].id = evaluated["system"][1] /\ events[k].type = "system.alert"
  /\ \E c \in CaseObjs : /\ evaluated[c] # <<>>
                          /\ evaluated[c][1] = evaluated["system"][2]
                          /\ run_raised

\* ---------------------------------------------- event log: further claims
\* C15: the events of one case, read in ascending id order, carry
\* non-decreasing timestamps, for every interleaving of publishers.
C15_TimestampsFollowIds ==
  \A i, j \in DOMAIN events :
    (events[i].case_id = events[j].case_id /\ events[i].id < events[j].id)
      => events[i].ts <= events[j].ts

\* C16: the log is append-only: after every step the log extends the log
\* before it, so every event ever published stays, with the same id,
\* timestamp, type, case, actor and payload.
C16_LogAppendOnly ==
  [][/\ Len(events') >= Len(events)
     /\ SubSeq(events', 1, Len(events)) = events]_vars

\* The log holds two events of one case and type, a poll has returned rows,
\* and the publisher has returned from its last call.
C16_Witness ==
  /\ pub[1].pc = "done"
  /\ poll_call.called /\ Len(poll_call.out) = 2
  /\ \E i, j \in DOMAIN events :
       /\ i < j
       /\ events[i].case_id = events[j].case_id
       /\ events[i].type = events[j].type

\* A step in which poll_events_since ran, for the observed consumer or for
\* another one.
PollStep == poll_call' # poll_call \/ poll_hist' # poll_hist

\* C17: a poll leaves the event log unchanged, and a consumer that repeats
\* its call with no insert in between obtains the same result although other
\* consumers polled, at any cursors, between its two calls.
C17_PollersDoNotInterfere ==
  [][PollStep =>
       /\ events' = events /\ autoinc' = autoinc /\ last_rowid' = last_rowid
       /\ (poll_hist'.repeat /\ poll_hist'.repeat_others)
             => poll_call'.out = poll_call.out]_vars

\* The observed consumer has repeated a call that returns rows, another
\* consumer having polled between its two calls.
C17_Witness ==
  /\ poll_hist.repeat /\ poll_hist.repeat_others
  /\ Len(poll_call.out) = 2
  /\ poll_call.case_id \in CaseObjs

\* C18: two polls with the same lastSeenId, caseId and limit and no publish
\* between them return identical sequences.
C18_PollIdempotent ==
  [][(PollStep /\ poll_hist'.repeat /\ ~poll_hist'.repeat_others)
       => poll_call'.out = poll_call.out]_vars

\* A truncated unfiltered poll has just been repeated back to back.
C18_Witness ==
  /\ poll_hist.repeat /\ ~poll_hist.repeat_others /\ ~poll_hist.others
  /\ poll_call.case_id = None
  /\ Len(poll_call.out) = poll_call.limit
  /\ poll_call.limit > 0
  /\ Len(events) > Len(poll_call.out)

C20_RedAcceptAlert ==
  [][\A c \in CaseObjs :
       (referrals'[c].status = "ACCEPTED" /\ referrals[c].status # "ACCEPTED")
         => IF TriageColor[c] = "RED" /\ notify_rules["RED_only"]
            THEN /\ Len(notifications') = Len(notifications) + 1
                 /\ Tail(notifications') = notifications
                 /\ notifications'[1].case_id = c
            ELSE notifications' = notifications]_vars

\* ------------------------------------------------------ eta rule: the claim
\* C21: when a case becomes ENROUTE with eta_min below the eta_alert
\* threshold and the eta_soon rule is on, one imminent-arrival alert for that
\* case is added to the notification list; no alert is added for a case that
\* is not ENROUTE, for eta_min at or above the threshold, or with the rule off.
C21_EtaSoonAlert ==
  [][\A c \in CaseObjs :
       (referrals'[c].status # referrals[c].status)
         => IF /\ referrals'[c].status = "ENROUTE"
               /\ EtaMin[c] < EtaAlert
               /\ notify_rules["eta_soon"]
            THEN /\ Len(notifications') = Len(notifications) + 1
                 /\ Tail(notifications') = notifications
                 /\ notifications'[1].case_id = c
            ELSE referrals'[c].status = "REJECTED" \/ notifications' = notifications]_vars

\* ---------------------------------------------------- persistence: the claims
\* The file each load operation reads.
FileOf(op) == IF op = "load_data" THEN "data.json" ELSE "referrals_data.json"

LoadOps == {"load_data", "load_persistent_data"}

\* C22: a load from a file that is missing, corrupt or of the wrong schema
\* completes without raising and yields the empty default dataset
\* {referrals: [], interventions: {}, resources: {}} (for the dashboard's
\* load, its referrals: an empty list).
C22_LoadFallsBackToDefault ==
  (op_result.op \in LoadOps /\ ~disk.saved[FileOf(op_result.op)].saved)
    => /\ op_result.outcome = "ok"
       /\ op_result.value = IF op_result.op = "load_data" THEN DefaultDataset
                            ELSE DefaultDataset.referrals

\* C23: a load from a file the program has saved returns the dataset handed
\* to the last save of that file, case for case (status, times, audit_log,
\* reject_reason), with nothing of what the file held before that save.
C23_RoundTripFullOverwrite ==
  (op_result.op \in LoadOps /\ disk.saved[FileOf(op_result.op)].saved)
    => /\ op_result.outcome = "ok"
       /\ op_result.value = disk.saved[FileOf(op_result.op)].data

\* The dashboard has loaded a dataset with a rejected case (a reason, an
\* audit entry, absent milestones) from a file whose last save overwrote
\* another JSON text.
C23_Witness ==
  /\ op_result.op = "load_persistent_data"
  /\ disk.saved["referrals_data.json"].saved
  /\ disk.saved["referrals_data.json"].over
  /\ op_result.value["S1"].status = "REJECTED"
  /\ op_result.value["S1"].reject_reason = "No ICU bed"
  /\ Len(op_result.value["S1"].audit_log) = 1
  /\ op_result.value["S1"].times["dispatch"] = Unset
  /\ op_result.value["S2"].reject_reason = None
  /\ referrals = op_result.value

\* ------------------------------------------------- store errors: the claim
\* C24: when the event store is unavailable, add_emt_intervention ends in
\* an explicit StorageUnavailable outcome and has no partial effect: neither
\* the intervention list nor the event table changes.
C24_StoreFailureIsExplicit ==
  [][(/\ emt_interventions' # emt_interventions
      /\ op_result'.op = "add_emt_intervention"
      /\ op_result'.store_failed)
       => /\ op_result'.outcome = "StorageUnavailable"
          /\ UNCHANGED <<emt_interventions, events>>]_vars

\* ------------------------------------------- notification list: the claims
\* C25: a notification in the list never changes its id, timestamp, title,
\* body, case id or urgency; a step changes the list only by putting one new
\* alert in front, by marking read (same count, read goes from false to
\* true, nothing else changes) or by clearing it (the list becomes empty).
C25_AlertsImmutable ==
  [][\/ notifications' = notifications
     \/ /\ Len(notifications') = Len(notifications) + 1
        /\ Tail(notifications') = notifications
        /\ ~notifications'[1].read
     \/ notifications' = <<>>
     \/ /\ Len(notifications') = Len(notifications)
        /\ \A i \in DOMAIN notifications :
             notifications'[i] = [notifications[i] EXCEPT !.read = TRUE]]_vars

\* "Mark all read" has just run on a list of an alert that was already read
\* and a newer one that was not; both are still there.
C25_Witness ==
  /\ last_click.op = "mark_all_read"
  /\ Len(notifications) = 2
  /\ \A i \in DOMAIN notifications :
       notifications[i].read /\ notifications[i].case_id = "TEST-001"
  /\ notifications[1].id # notifications[2].id
  /\ saved_data # None

\* C30: the collection seen after the rerun that follows "Load Demo Scenario"
\* is the list of the three demo cases, and the one seen after the rerun
\* that follows "Reset Data" is the newly seeded list, whether or not
\* auto_save ran earlier in the session.
C30_ReplacementSurvivesRerun ==
  [][/\ last_click'.op = "load_demo" => referrals_all' = "demo"
     /\ (last_click.op = "reset_data" /\ last_click'.op = "rerun")
          => referrals_all' = "reseeded"]_vars

\* ------------------------------------------------ milestones: the claim
\* C26: a milestone of a case's times that has been set is never removed and
\* never rewritten to an earlier timestamp, whatever buttons are pressed and
\* across auto_save and the restore of saved_data on a rerun.
C26_TimesOnlyGrow ==
  [][\A c \in CaseObjs, k \in TimeKeys :
       referrals[c].times[k] # Unset
         => /\ referrals'[c].times[k] # Unset
            /\ referrals'[c].times[k] >= referrals[c].times[k]]_vars

\* A case seeded as handed over has been set back to ACCEPTED, saved and
\* restored on a rerun; all its milestones are still there.
C26_Witness ==
  /\ last_click.op = "rerun"
  /\ saved_data # None
  /\ referrals["S1"].status = "ACCEPTED"
  /\ referrals["S1"].times = SeedTimes("HANDOVER")
  /\ referrals["S2"].status = "ENROUTE"
  /\ referrals["S2"].times = SeedTimes("PREALERT")

\* ------------------------------------------------- watermark: the claims
\* Events of case c of the given type at or below the case's watermark.
BelowWatermark(c, type) ==
  {k \in DOMAIN events : /\ events[k].case_id = c
                         /\ events[k].id <= last_event_id[c]
                         /\ events[k].type = type}

\* C27: the watermark of a case never runs ahead of processing: every event
\* of the case with id at or below last_event_id[case] has been looked at by
\* the routing loop, each vitals.update is in vitals_buffer[case] and each
\* intervention.added in interventions_buffer[case].
C27_WatermarkBehindRouting ==
  \A c \in CaseObjs :
    /\ \A k \in DOMAIN events :
         (events[k].case_id = c /\ events[k].id <= last_event_id[c])
           => \E i \in DOMAIN evaluated[c] : evaluated[c][i] = events[k].id
    /\ Len(vitals_buffer[c]) = Cardinality(BelowWatermark(c, "vitals.update"))
    /\ Len(interventions_buffer[c]) = Cardinality(BelowWatermark(c, "intervention.added"))

\* C28: the watermark of a case never decreases over ingests, publishes and
\* Clear feed; it is unchanged by a step that delivers nothing (a poll that
\* returns no events included); after an ingest that returned events it is
\* the largest id of the case delivered so far; and live_feed[case] holds
\* delivered events only, each at most once, in strictly ascending id order.
C28_WatermarkMonotone ==
  /\ [][\A c \in CaseObjs :
          /\ last_event_id'[c] >= last_event_id[c]
          /\ delivered'[c] = delivered[c] => last_event_id'[c] = last_event_id[c]
          /\ delivered'[c] # delivered[c]
               => last_event_id'[c] =
                    MaxOf({delivered'[c][i] : i \in DOMAIN delivered'[c]})]_vars
  /\ [](\A c \in CaseObjs :
          /\ \A i, j \in DOMAIN live_feed[c] :
               i < j => live_feed[c][i].id < live_feed[c][j].id
          /\ \A i \in DOMAIN live_feed[c] : live_feed[c][i].id \in DeliveredIds(c))

\* A case's feed was cleared between two ingests: two events were delivered,
\* the feed holds the second only and the watermark stands at it; the other
\* case's feed has its one event.
C28_Witness ==
  \E c \in CaseObjs :
    /\ Len(delivered[c]) = 2
    /\ Len(live_feed[c]) = 1
    /\ live_feed[c][1].id = delivered[c][2]
    /\ last_event_id[c] = delivered[c][2]
    /\ \E d \in CaseObjs \ {c} : Len(live_feed[d]) = 1 /\ last_event_id[d] = live_feed[d][1].id

\* ------------------------------------------------- case filter: the claim
\* C29: whenever poll_events_since is called with a case_id other than None,
\* the empty string included, every returned event has exactly that case_id.
C29_FilterForEveryCaseId ==
  [][(poll_call' # poll_call /\ poll_call'.case_id # None)
       => \A i \in DOMAIN poll_call'.out :
            poll_call'.out[i].case_id = poll_call'.case_id]_vars

====
